---- MODULE Spec2Model ----
(***************************************************************************)
(* Planner / Worker / Memory execution loop of ALAN.                       *)
(*                                                                         *)
(* Two generations of the loop live in the repository and both are         *)
(* modelled:                                                               *)
(*   gen = "hrm"    alan_core/{planner,worker,memory,hrm}.py  (HRM.run)    *)
(*   gen = "engine" alan_app/alan_core_engine.py       (AlanCore.process)  *)
(*                                                                         *)
(* Strings are sequences of one-character strings, so that lower(),        *)
(* strip(), startswith(), endswith() and the substring test `a in b` are   *)
(* computed, character by character, the way Python computes them.         *)
(* A dict with string keys is a record; a list is a sequence; a uuid4 is a *)
(* fresh natural number.  Wall-clock durations ("time" of an execution     *)
(* result) and Task.priority / Task.metadata are never read by the code    *)
(* and are left out of the records.                                        *)
(***************************************************************************)
EXTENDS Integers, Sequences, FiniteSets, TLC

VARIABLES
    gen,        \* which generation this instance is: "hrm" | "engine"
    max_depth,  \* HRM.max_depth / AlanCore.max_depth
    llm_call,   \* Worker.llm_call: "none" (None) | "hook" (a callable)
    pc,         \* position of the caller in run()/process()
    processed,  \* processed_input of the current run
    plan,       \* value returned by Planner.plan in the current run
    frontier,   \* local `frontier` of the run: sequence of [task, depth]
    results,    \* local `results` of the run
    calls,      \* log of the Worker.execute calls of the run: [task, depth]
    popped,     \* log of the frontier.pop(0) of the run: [task, depth]
    spawned,    \* log of the spawns of the run: [children, queued]
    short,      \* Memory.short / Memory.short_term
    long,       \* Memory.long / Memory.long_term, in dict insertion order
    disk,       \* the file at Memory.long_term_path
    shortLog,   \* every item ever appended to the short-term list, in order
    ret,        \* what Memory.retrieve returned, when it was the last call made
    nextId,     \* number of uuid4 values drawn so far
    now,        \* time.time(), in seconds
    runs,       \* number of run()/process() calls started
    parent,     \* argument of a direct Planner.decompose call
    subtasks,   \* what that call returned
    flushFailed, \* whether the latest Memory._flush could not open the file
    threads     \* position of each thread inside Memory.write: [pc, seen]

orchVars == <<gen, max_depth, llm_call, pc, processed, plan, frontier, results,
              calls, popped, spawned, runs>>
memVars == <<short, long, disk, shortLog, ret, now, flushFailed, threads>>
planVars == <<parent, subtasks>>
vars == <<orchVars, memVars, planVars, nextId>>

\* None, and the value of a variable that holds nothing yet.
None == [none |-> TRUE]

(***************************************************************************)
(* String literals of the source.                                          *)
(***************************************************************************)
\* "create"  (alan_core/planner.py:28)
kw_create == <<"c", "r", "e", "a", "t", "e">>
\* "build"  (alan_core/planner.py:28)
kw_build == <<"b", "u", "i", "l", "d">>
\* "debug"  (alan_core/planner.py:34)
kw_debug == <<"d", "e", "b", "u", "g">>
\* "fix"  (alan_core/planner.py:34)
kw_fix == <<"f", "i", "x">>
\* "scaffold project"  (alan_core/planner.py:30)
d_scaffold_project == <<"s", "c", "a", "f", "f", "o", "l", "d", " ", "p", "r", "o", "j", "e", "c", "t">>
\* "create core modules"  (alan_core/planner.py:31)
d_create_core_modules == <<"c", "r", "e", "a", "t", "e", " ", "c", "o", "r", "e", " ", "m", "o", "d", "u", "l", "e", "s">>
\* "write tests"  (alan_core/planner.py:32)
d_write_tests == <<"w", "r", "i", "t", "e", " ", "t", "e", "s", "t", "s">>
\* "collect logs"  (alan_core/planner.py:36)
d_collect_logs == <<"c", "o", "l", "l", "e", "c", "t", " ", "l", "o", "g", "s">>
\* "reproduce"  (alan_core/planner.py:37)
d_reproduce == <<"r", "e", "p", "r", "o", "d", "u", "c", "e">>
\* "apply fix"  (alan_core/planner.py:38)
d_apply_fix == <<"a", "p", "p", "l", "y", " ", "f", "i", "x">>
\* "analyze"  (alan_core/planner.py:41)
d_analyze == <<"a", "n", "a", "l", "y", "z", "e">>
\* "verify fix"  (alan_core/hrm.py:27)
d_verify_fix == <<"v", "e", "r", "i", "f", "y", " ", "f", "i", "x">>
\* "scaffold"  (alan_core/worker.py:22)
kw_scaffold == <<"s", "c", "a", "f", "f", "o", "l", "d">>
\* "core modules"  (alan_core/worker.py:24)
kw_core_modules == <<"c", "o", "r", "e", " ", "m", "o", "d", "u", "l", "e", "s">>
\* "tests"  (alan_app/alan_core_engine.py:170)
kw_tests == <<"t", "e", "s", "t", "s">>
\* "respond"  (alan_app/alan_core_engine.py:178)
kw_respond == <<"r", "e", "s", "p", "o", "n", "d">>
\* "scaffold project structure"  (alan_app/alan_core_engine.py:142)
e_scaffold_project_structure == <<"s", "c", "a", "f", "f", "o", "l", "d", " ", "p", "r", "o", "j", "e", "c", "t", " ", "s", "t", "r", "u", "c", "t", "u", "r", "e">>
\* "write basic tests"  (alan_app/alan_core_engine.py:144)
e_write_basic_tests == <<"w", "r", "i", "t", "e", " ", "b", "a", "s", "i", "c", " ", "t", "e", "s", "t", "s">>
\* "reproduce issue"  (alan_app/alan_core_engine.py:148)
e_reproduce_issue == <<"r", "e", "p", "r", "o", "d", "u", "c", "e", " ", "i", "s", "s", "u", "e">>
\* "write regression test"  (alan_app/alan_core_engine.py:150)
e_write_regression_test == <<"w", "r", "i", "t", "e", " ", "r", "e", "g", "r", "e", "s", "s", "i", "o", "n", " ", "t", "e", "s", "t">>
\* "create README"  (alan_app/alan_core_engine.py:230)
e_create_README == <<"c", "r", "e", "a", "t", "e", " ", "R", "E", "A", "D", "M", "E">>
\* "create src folder"  (alan_app/alan_core_engine.py:230)
e_create_src_folder == <<"c", "r", "e", "a", "t", "e", " ", "s", "r", "c", " ", "f", "o", "l", "d", "e", "r">>
\* "task_result"  (alan_core/worker.py:40)
k_task_result == <<"t", "a", "s", "k", "_", "r", "e", "s", "u", "l", "t">>
\* "last_results"  (alan_core/hrm.py:29)
k_last_results == <<"l", "a", "s", "t", "_", "r", "e", "s", "u", "l", "t", "s">>
\* "user_input"  (alan_app/alan_core_engine.py:207)
k_user_input == <<"u", "s", "e", "r", "_", "i", "n", "p", "u", "t">>
\* ": "  (alan_core/planner.py:21)
root_sep == <<":", " ">>
\* "Handle intent="  (alan_app/alan_core_engine.py:131)
e_root_prefix == <<"H", "a", "n", "d", "l", "e", " ", "i", "n", "t", "e", "n", "t", "=">>
\* "create"  (alan_app/alan_core_engine.py:96)
i_create == <<"c", "r", "e", "a", "t", "e">>
\* "debug"  (alan_app/alan_core_engine.py:98)
i_debug == <<"d", "e", "b", "u", "g">>
\* "query"  (alan_app/alan_core_engine.py:100)
i_query == <<"q", "u", "e", "r", "y">>
\* "general"  (alan_app/alan_core_engine.py:101)
i_general == <<"g", "e", "n", "e", "r", "a", "l">>
\* "?"  (alan_app/alan_core_engine.py:99)
kw_qmark == <<"?">>
(***************************************************************************)
(* Python string operations.                                               *)
(***************************************************************************)
\* str.lower() on one character
LowerChar(c) ==
    CASE c = "A" -> "a" [] c = "B" -> "b" [] c = "C" -> "c" [] c = "D" -> "d"
      [] c = "E" -> "e" [] c = "F" -> "f" [] c = "G" -> "g" [] c = "H" -> "h"
      [] c = "I" -> "i" [] c = "J" -> "j" [] c = "K" -> "k" [] c = "L" -> "l"
      [] c = "M" -> "m" [] c = "N" -> "n" [] c = "O" -> "o" [] c = "P" -> "p"
      [] c = "Q" -> "q" [] c = "R" -> "r" [] c = "S" -> "s" [] c = "T" -> "t"
      [] c = "U" -> "u" [] c = "V" -> "v" [] c = "W" -> "w" [] c = "X" -> "x"
      [] c = "Y" -> "y" [] c = "Z" -> "z" [] OTHER -> c

\* str.lower()
Lower(s) == [i \in 1..Len(s) |-> LowerChar(s[i])]

\* `needle in hay` on strings
Contains(needle, hay) ==
    \E i \in 1..(Len(hay) - Len(needle) + 1) :
        SubSeq(hay, i, i + Len(needle) - 1) = needle

\* str.startswith / str.endswith
StartsWith(s, p) == Len(p) <= Len(s) /\ SubSeq(s, 1, Len(p)) = p
EndsWith(s, p) == Len(p) <= Len(s) /\ SubSeq(s, Len(s) - Len(p) + 1, Len(s)) = p

\* str.strip(): the whitespace of the inputs is the blank
RECURSIVE LStrip(_)
LStrip(s) == IF s # <<>> /\ Head(s) = " " THEN LStrip(Tail(s)) ELSE s
RECURSIVE RStrip(_)
RStrip(s) ==
    IF s # <<>> /\ s[Len(s)] = " " THEN RStrip(SubSeq(s, 1, Len(s) - 1)) ELSE s
Strip(s) == RStrip(LStrip(s))

\* str.split() on blanks
RECURSIVE SplitFrom(_, _, _)
SplitFrom(s, word, acc) ==
    IF s = <<>> THEN (IF word = <<>> THEN acc ELSE Append(acc, word))
    ELSE IF Head(s) = " "
         THEN SplitFrom(Tail(s), <<>>, IF word = <<>> THEN acc ELSE Append(acc, word))
         ELSE SplitFrom(Tail(s), Append(word, Head(s)), acc)
Split(s) == SplitFrom(s, <<>>, <<>>)

\* dict.get(key, default) on a dict with string keys
Get(d, key, default) == IF key \in DOMAIN d THEN d[key] ELSE default

(***************************************************************************)
(* Tasks.                                                                  *)
(***************************************************************************)
\* str(uuid.uuid4()): the n-th uuid drawn
Uuid(n) == [prefix |-> <<>>, uuid |-> n]
\* "verify-" + task.id
VerifyId(id) == [prefix |-> <<"verify-">> \o id.prefix, uuid |-> id.uuid]

Task(id, description, depth) == [id |-> id, description |-> description, depth |-> depth]

(***************************************************************************)
(* alan_core/planner.py                                                    *)
(***************************************************************************)
\* Planner.decompose; id0 is the number of uuids drawn before the call
CoreDecompose(task, id0) ==
    LET desc == Lower(task.description) IN
    IF Contains(kw_create, desc) \/ Contains(kw_build, desc)
    THEN << Task(Uuid(id0 + 1), d_scaffold_project, 1),
            Task(Uuid(id0 + 2), d_create_core_modules, 1),
            Task(Uuid(id0 + 3), d_write_tests, 1) >>
    ELSE IF Contains(kw_debug, desc) \/ Contains(kw_fix, desc)
    THEN << Task(Uuid(id0 + 1), d_collect_logs, 1),
            Task(Uuid(id0 + 2), d_reproduce, 1),
            Task(Uuid(id0 + 3), d_apply_fix, 1) >>
    ELSE << Task(Uuid(id0 + 1), d_analyze, 1) >>

\* the root task of Planner.plan
CoreRoot(processed_input, id0) ==
    LET intent == Get(processed_input, "intent", i_general)
        text == Get(processed_input, "text", <<>>)
    IN Task(Uuid(id0 + 1), intent \o root_sep \o text, 0)

\* Planner.plan
CorePlan(processed_input, id0) ==
    CoreDecompose(CoreRoot(processed_input, id0), id0 + 1)

(***************************************************************************)
(* alan_app/alan_core_engine.py: InputProcessor, Planner                   *)
(***************************************************************************)
\* InputProcessor._detect_intent
DetectIntent(text) ==
    LET t == Lower(text) IN
    IF StartsWith(t, kw_create) \/ StartsWith(t, kw_build) THEN i_create
    ELSE IF StartsWith(t, kw_fix) \/ StartsWith(t, kw_debug) THEN i_debug
    ELSE IF EndsWith(t, kw_qmark) THEN i_query
    ELSE i_general

\* InputProcessor.preprocess
Preprocess(raw) ==
    LET text == Strip(raw) IN
    [raw |-> raw, text |-> text, intent |-> DetectIntent(text), tokens |-> Split(text)]

\* Planner.decompose
EngineDecompose(task, id0) ==
    LET desc == Lower(task.description) IN
    IF Contains(kw_create, desc) \/ Contains(kw_build, desc)
    THEN << Task(Uuid(id0 + 1), e_scaffold_project_structure, 1),
            Task(Uuid(id0 + 2), d_create_core_modules, 1),
            Task(Uuid(id0 + 3), e_write_basic_tests, 1) >>
    ELSE IF Contains(kw_debug, desc) \/ Contains(kw_fix, desc)
    THEN << Task(Uuid(id0 + 1), e_reproduce_issue, 1),
            Task(Uuid(id0 + 2), d_apply_fix, 1),
            Task(Uuid(id0 + 3), e_write_regression_test, 1) >>
    ELSE << Task(Uuid(id0 + 1), d_analyze, 1), Task(Uuid(id0 + 2), kw_respond, 1) >>

\* the root task of Planner.plan
EngineRoot(processed_input, id0) ==
    LET intent == Get(processed_input, "intent", i_general)
        text == Get(processed_input, "text", <<>>)
    IN Task(Uuid(id0 + 1), e_root_prefix \o intent \o root_sep \o text, 0)

\* Planner.plan
EnginePlan(processed_input, id0) ==
    EngineDecompose(EngineRoot(processed_input, id0), id0 + 1)

(***************************************************************************)
(* Workers.                                                                *)
(***************************************************************************)
\* What one call of the injected llm_call hook may do: raise, or return a
\* payload (a completion, or a payload that itself carries a "fixed" flag).
HookOutcomes ==
    { [raises |-> TRUE],
      [raises |-> FALSE, value |-> [text |-> "completion"]],
      [raises |-> FALSE, value |-> [fixed |-> TRUE]] }

\* alan_core/worker.py Worker.execute, up to the memory write: the computed
\* `result`, or the exception of the hook, which nothing in execute catches.
CoreWorkerResult(task, llm, hook) ==
    LET desc == Lower(task.description) IN
    IF Contains(kw_scaffold, desc) \/ Contains(d_scaffold_project, desc)
    THEN [raised |-> FALSE, result |-> [files |-> <<"README.md", "src/", "alan_core/">>]]
    ELSE IF Contains(d_create_core_modules, desc) \/ Contains(kw_core_modules, desc)
    THEN [raised |-> FALSE,
          result |-> [modules |-> <<"planner", "worker", "memory", "io">>]]
    ELSE IF Contains(d_write_tests, desc)
    THEN [raised |-> FALSE, result |-> [tests |-> <<"test_basic_flow.py">>]]
    ELSE IF Contains(d_collect_logs, desc)
    THEN [raised |-> FALSE, result |-> [logs |-> "no logs (simulated)"]]
    ELSE IF Contains(d_reproduce, desc)
    THEN [raised |-> FALSE, result |-> [reproduce |-> TRUE]]
    ELSE IF Contains(d_apply_fix, desc)
    THEN [raised |-> FALSE, result |-> [fixed |-> TRUE]]
    ELSE IF llm = "hook"
    THEN (IF hook.raises THEN [raised |-> TRUE]
          ELSE [raised |-> FALSE, result |-> [llm |-> hook.value]])
    ELSE [raised |-> FALSE, result |-> [echo |-> task.description]]

\* alan_app/alan_core_engine.py Worker.execute, up to the memory write
EngineWorkerResult(task) ==
    LET desc == task.description IN
    IF Contains(kw_scaffold, desc)
    THEN [files |-> <<"README.md", "src/", "alan_core/">>]
    ELSE IF Contains(kw_core_modules, desc)
    THEN [modules |-> <<"planner", "worker", "memory", "io">>]
    ELSE IF Contains(kw_tests, desc) THEN [tests |-> <<"test_basic_flow.py">>]
    ELSE IF Contains(d_reproduce, desc) THEN [status |-> "reproduced sample input"]
    ELSE IF Contains(d_apply_fix, desc) THEN [status |-> "fix applied"]
    ELSE IF Contains(d_analyze, desc) THEN [analysis |-> "short analysis summary"]
    ELSE IF Contains(kw_respond, desc) THEN [response |-> "Here's a helpful answer."]
    ELSE [echo |-> task.description]

\* the dict both Worker.execute return
ExecutionResult(task, result) ==
    [task_id |-> task.id, description |-> task.description, result |-> result]

\* the marker both loops append for a task they do not execute
Skipped(task) == [task |-> task.description, skipped |-> TRUE]

\* content of the "task_result" event both Worker.execute write
TaskResultContent(task, result) == [task |-> task.description, result |-> result]

(***************************************************************************)
(* Memory.                                                                 *)
(***************************************************************************)
\* alan_core/memory.py: len(self.short) > 200
CoreShortBound == 200
\* alan_app/alan_core_engine.py: len(self.short_term) > 100
EngineShortBound == 100

ShortBound(g) == IF g = "hrm" THEN CoreShortBound ELSE EngineShortBound

\* alan_core/memory.py: asdict(MemoryItem(id, ts, kind, content))
CoreItem(n, ts, kind, content) == [id |-> n, ts |-> ts, kind |-> kind, content |-> content]

\* alan_core/memory.py __init__: MemoryItem(**v), an object and not a dict
LoadedItem(v) == [MemoryItem |-> v]
IsDict(i) == "MemoryItem" \notin DOMAIN i

\* alan_app/alan_core_engine.py: MemoryItem(id, timestamp, kind, content), score = 1.0
EngineItem(n, ts, kind, content) ==
    [id |-> n, timestamp |-> ts, kind |-> kind, content |-> content, score |-> 1]

Item(g, n, ts, kind, content) ==
    IF g = "hrm" THEN CoreItem(n, ts, kind, content) ELSE EngineItem(n, ts, kind, content)

\* the newest item dropped instead of the oldest
CoreShortAppend_DropNewest(s, item) ==
    LET a == Append(s, item) IN
    IF Len(a) > CoreShortBound THEN SubSeq(a, 1, Len(a) - 1) ELSE a

\* self.short.append(item); if len(self.short) > 200: self.short.pop(0)
CoreShortAppend(s, item) ==
    LET a == Append(s, item) IN IF Len(a) > CoreShortBound THEN Tail(a) ELSE a

\* self.short_term.append(item); if len(self.short_term) > 100: self.short_term.pop(0)
EngineShortAppend(s, item) ==
    LET a == Append(s, item) IN IF Len(a) > EngineShortBound THEN Tail(a) ELSE a

\* self.long[item.id] = ...: a dict keeps its keys in insertion order
LongPut(l, key, value) ==
    IF \E i \in 1..Len(l) : l[i].key = key
    THEN [i \in 1..Len(l) |-> IF l[i].key = key THEN [key |-> key, value |-> value] ELSE l[i]]
    ELSE Append(l, [key |-> key, value |-> value])

\* list(self.long.values())
LongValues(l) == [i \in 1..Len(l) |-> l[i].value]

\* The file at long_term_path.
NoFile == [exists |-> FALSE]
Malformed == [exists |-> TRUE, parses |-> FALSE]
JsonFile(entries) == [exists |-> TRUE, parses |-> TRUE, entries |-> entries]

\* the file dumped without the entry just inserted
Flush_OmitNewest(l, d, ioOk) ==
    IF ~ioOk THEN d ELSE JsonFile(SubSeq(l, 1, Len(l) - 1))

\* Memory._flush: json.dump(self.long, open(path, "w")), every exception
\* swallowed.  open() may fail (ioOk = FALSE) and leave the file alone; once the
\* file is open it is truncated, and a value json cannot serialise (a
\* MemoryItem object) leaves it cut short.
Flush(l, d, ioOk) ==
    IF ~ioOk THEN d
    ELSE IF \A i \in 1..Len(l) : IsDict(l[i].value) THEN JsonFile(l)
    ELSE Malformed

\* MemoryItem(**v) accepts exactly the four fields of the dataclass
WellFormed(v) == DOMAIN v = {"id", "ts", "kind", "content"}

\* Memory.__init__: load the file; an exception ends the loop and keeps the
\* entries inserted before it
RECURSIVE LoadEntries(_, _)
LoadEntries(entries, acc) ==
    IF entries = <<>> THEN acc
    ELSE IF ~WellFormed(Head(entries).value) THEN acc
    ELSE LoadEntries(Tail(entries),
                     LongPut(acc, Head(entries).key, LoadedItem(Head(entries).value)))

Load(d) ==
    IF ~d.exists THEN <<>>
    ELSE IF ~d.parses THEN <<>>
    ELSE LoadEntries(d.entries, <<>>)

\* the call returns without storing the item
MemoryWrite_Lost(g, n, kind, content, long_term, ioOk) ==
    UNCHANGED <<short, shortLog, long, disk, flushFailed, threads>>

\* a long-term item left in the short-term list as well
MemoryWrite_BothPartitions(g, n, kind, content, long_term, ioOk) ==
    LET item == Item(g, n, now, kind, content) IN
    /\ short' = IF g = "hrm" THEN CoreShortAppend(short, item)
                ELSE EngineShortAppend(short, item)
    /\ shortLog' = Append(shortLog, item)
    /\ long' = IF long_term THEN LongPut(long, n, item) ELSE long
    /\ disk' = IF long_term /\ g = "hrm" THEN Flush(long', disk, ioOk) ELSE disk
    /\ flushFailed' = IF long_term /\ g = "hrm" THEN ~ioOk ELSE flushFailed
    /\ UNCHANGED threads

\* Memory.write of either generation: the new values of the store
MemoryWrite(g, n, kind, content, long_term, ioOk) ==
    LET item == Item(g, n, now, kind, content) IN
    IF long_term
    THEN /\ long' = LongPut(long, n, item)
         /\ disk' = IF g = "hrm" THEN Flush(long', disk, ioOk) ELSE disk
         /\ flushFailed' = IF g = "hrm" THEN ~ioOk ELSE flushFailed
         /\ UNCHANGED <<short, shortLog, threads>>
    ELSE /\ short' = IF g = "hrm" THEN CoreShortAppend(short, item)
                     ELSE EngineShortAppend(short, item)
         /\ shortLog' = Append(shortLog, item)
         /\ UNCHANGED <<long, disk, flushFailed, threads>>

(***************************************************************************)
(* Inputs and bounds of the model.                                         *)
(***************************************************************************)
\* max_depth is drawn from 0..MaxDepthBound
MaxDepthBound == 3
\* threads that serve requests against the module-level HRM of backend/app.py
NumThreads == 2
Threads == 1..NumThreads
\* a thread that is not inside Memory.write
IdleThread == [pc |-> "idle"]
\* run()/process() calls per instance
MaxRuns == 1

\* "Create a new project"
in_create == <<"C", "r", "e", "a", "t", "e", " ", "a", " ", "n", "e", "w", " ", "p", "r", "o", "j", "e", "c", "t">>
\* "Debug why build fails"
in_debug == <<"D", "e", "b", "u", "g", " ", "w", "h", "y", " ", "b", "u", "i", "l", "d", " ", "f", "a", "i", "l", "s">>
\* "What's the status?"
in_status == <<"W", "h", "a", "t", "'", "s", " ", "t", "h", "e", " ", "s", "t", "a", "t", "u", "s", "?">>
\* "Fix the login"
in_fix == <<"F", "i", "x", " ", "t", "h", "e", " ", "l", "o", "g", "i", "n">>
\* "hello"
in_hello == <<"h", "e", "l", "l", "o">>
\* " rebuild it "
in_padded == <<" ", "r", "e", "b", "u", "i", "l", "d", " ", "i", "t", " ">>

Texts == {in_create, in_debug, in_status, in_fix, in_hello}
Intents == {i_create, i_debug, i_query, i_general}

\* input records handed to HRM.run (backend/app.py builds text, intent, tokens);
\* one record has no intent, so that the default of .get("intent") is used
HrmInputs ==
    {[text |-> t, intent |-> i, tokens |-> Split(t)] : t \in Texts, i \in Intents}
        \cup {[text |-> in_fix]}

\* raw lines handed to AlanCore.process
RawInputs == Texts \cup {in_padded}

\* a long-term file left by an earlier process
StoredFile ==
    JsonFile(<< [key |-> -1, value |-> CoreItem(-1, 0, k_task_result, in_hello)] >>)

(***************************************************************************)
(* alan_core/hrm.py: HRM.run                                               *)
(***************************************************************************)
\* frontier = [(t, 1) for t in plan]
Seed(tasks) == [i \in 1..Len(tasks) |-> [task |-> tasks[i], depth |-> 1]]

TasksOf(f) == [i \in 1..Len(f) |-> f[i].task]

\* the depth check off by one: one level too deep is still executed
HrmDepthExceeded_OffByOne(depth, maxd) == depth > maxd + 1

\* if depth > self.max_depth
HrmDepthExceeded(depth, maxd) == depth > maxd

\* the flag never looked at
HrmWantsFollowUp_Never(res) == FALSE

\* the flag also looked for inside what the hook returned
HrmWantsFollowUp_Nested(res) ==
    LET r == Get(res, "result", <<>>) IN
    \/ "fixed" \in DOMAIN r /\ r.fixed = TRUE
    \/ "llm" \in DOMAIN r /\ "fixed" \in DOMAIN r.llm /\ r.llm.fixed = TRUE

\* if res.get("result", {}).get("fixed")
HrmWantsFollowUp(res) ==
    LET r == Get(res, "result", <<>>) IN "fixed" \in DOMAIN r /\ r.fixed = TRUE

\* frontier.insert(0, (v, depth + 1))
HrmSpawnInsert(f, entry) == <<entry>> \o f

\* HRM.run up to the loop
Run(inp) ==
    /\ gen = "hrm"
    /\ pc # "draining"
    /\ runs < MaxRuns
    /\ runs' = runs + 1
    /\ processed' = inp
    /\ plan' = CorePlan(inp, nextId)
    /\ nextId' = nextId + 1 + Len(plan')
    /\ frontier' = Seed(plan')
    /\ results' = <<>>
    /\ calls' = <<>>
    /\ popped' = <<>>
    /\ spawned' = <<>>
    /\ pc' = "draining"
    /\ UNCHANGED <<gen, max_depth, llm_call, memVars, planVars>>

\* one iteration of `while frontier`; hook is what llm_call does if it is called
RunIter(hook) ==
    /\ gen = "hrm"
    /\ pc = "draining"
    /\ frontier # <<>>
    /\ LET task == Head(frontier).task
           depth == Head(frontier).depth
           rest == Tail(frontier)
           out == CoreWorkerResult(task, llm_call, hook)
       IN /\ popped' = Append(popped, Head(frontier))
          /\ IF HrmDepthExceeded(depth, max_depth)
             THEN /\ results' = Append(results, Skipped(task))
                  /\ frontier' = rest
                  /\ UNCHANGED <<pc, calls, spawned, memVars, nextId>>
             ELSE /\ calls' = Append(calls, Head(frontier))
                  /\ IF out.raised
                     THEN \* the exception leaves execute and run
                          /\ pc' = "raised"
                          /\ frontier' = rest
                          /\ UNCHANGED <<results, spawned, memVars, nextId>>
                     ELSE LET res == ExecutionResult(task, out.result) IN
                          /\ MemoryWrite("hrm", nextId + 1, k_task_result,
                                         TaskResultContent(task, out.result), FALSE, TRUE)
                          /\ nextId' = nextId + 1
                          /\ results' = Append(results, res)
                          /\ IF HrmWantsFollowUp(res)
                             THEN LET v == Task(VerifyId(task.id), d_verify_fix, depth + 1) IN
                                  /\ frontier' = HrmSpawnInsert(rest, [task |-> v, depth |-> depth + 1])
                                  /\ spawned' = Append(spawned,
                                        [children |-> <<v>>, queued |-> TasksOf(rest)])
                             ELSE /\ frontier' = rest
                                  /\ UNCHANGED spawned
                          /\ UNCHANGED <<pc, ret, now>>
    /\ UNCHANGED <<gen, max_depth, llm_call, processed, plan, runs, planVars>>

\* after the loop: self.memory.write(kind="last_results", ...); return results
RunFinalize ==
    /\ gen = "hrm"
    /\ pc = "draining"
    /\ frontier = <<>>
    /\ MemoryWrite("hrm", nextId + 1, k_last_results, results, FALSE, TRUE)
    /\ nextId' = nextId + 1
    /\ pc' = "done"
    /\ UNCHANGED <<gen, max_depth, llm_call, processed, plan, frontier, results,
                   calls, popped, spawned, runs, ret, now, planVars>>

(***************************************************************************)
(* alan_app/alan_core_engine.py: AlanCore.process                          *)
(***************************************************************************)
\* if depth > self.max_depth
EngineDepthExceeded(depth, maxd) == depth > maxd

\* if "scaffold" in task.description and depth < self.max_depth
EngineWantsFollowUp(task, depth, maxd) ==
    Contains(kw_scaffold, task.description) /\ depth < maxd

\* sub = [Task("create README", depth+1), Task("create src folder", depth+1)]
EngineChildren(depth, id0) ==
    << Task(Uuid(id0 + 1), e_create_README, depth + 1),
       Task(Uuid(id0 + 2), e_create_src_folder, depth + 1) >>

\* the children appended behind the queued entries instead of inserted in front
EngineSpawnInsert_AtBack(f, entries) == f \o entries

\* only the last child reaches the frontier
EngineSpawnInsert_OnlyLast(f, entries) ==
    IF entries = <<>> THEN f ELSE <<entries[Len(entries)]>> \o f

\* for s in sub: frontier.insert(0, (s, depth+1))
RECURSIVE EngineSpawnInsert(_, _)
EngineSpawnInsert(f, entries) ==
    IF entries = <<>> THEN f
    ELSE EngineSpawnInsert(<<Head(entries)>> \o f, Tail(entries))

\* AlanCore.process up to the loop
Process(raw) ==
    /\ gen = "engine"
    /\ pc # "draining"
    /\ runs < MaxRuns
    /\ runs' = runs + 1
    /\ processed' = Preprocess(raw)
    /\ MemoryWrite("engine", nextId + 1, k_user_input, processed', FALSE, TRUE)
    /\ plan' = EnginePlan(processed', nextId + 1)
    /\ nextId' = nextId + 2 + Len(plan')
    /\ frontier' = Seed(plan')
    /\ results' = <<>>
    /\ calls' = <<>>
    /\ popped' = <<>>
    /\ spawned' = <<>>
    /\ pc' = "draining"
    /\ UNCHANGED <<gen, max_depth, llm_call, ret, now, planVars>>

\* one iteration of `while frontier`
ProcessIter ==
    /\ gen = "engine"
    /\ pc = "draining"
    /\ frontier # <<>>
    /\ LET task == Head(frontier).task
           depth == Head(frontier).depth
           rest == Tail(frontier)
           result == EngineWorkerResult(task)
       IN /\ popped' = Append(popped, Head(frontier))
          /\ IF EngineDepthExceeded(depth, max_depth)
             THEN /\ results' = Append(results, Skipped(task))
                  /\ frontier' = rest
                  /\ UNCHANGED <<calls, spawned, memVars, nextId>>
             ELSE /\ calls' = Append(calls, Head(frontier))
                  /\ MemoryWrite("engine", nextId + 1, k_task_result,
                                 TaskResultContent(task, result), FALSE, TRUE)
                  /\ results' = Append(results, ExecutionResult(task, result))
                  /\ IF EngineWantsFollowUp(task, depth, max_depth)
                     THEN LET sub == EngineChildren(depth, nextId + 1) IN
                          /\ nextId' = nextId + 1 + Len(sub)
                          /\ frontier' = EngineSpawnInsert(rest,
                                [i \in 1..Len(sub) |-> [task |-> sub[i], depth |-> depth + 1]])
                          /\ spawned' = Append(spawned,
                                [children |-> sub, queued |-> TasksOf(rest)])
                     ELSE /\ nextId' = nextId + 1
                          /\ frontier' = rest
                          /\ UNCHANGED spawned
                  /\ UNCHANGED <<ret, now>>
    /\ UNCHANGED <<gen, max_depth, llm_call, pc, processed, plan, runs, planVars>>

\* after the loop: self.memory.write(kind="last_results", ...); return the rendering
ProcessFinalize ==
    /\ gen = "engine"
    /\ pc = "draining"
    /\ frontier = <<>>
    /\ MemoryWrite("engine", nextId + 1, k_last_results, results, FALSE, TRUE)
    /\ nextId' = nextId + 1
    /\ pc' = "done"
    /\ UNCHANGED <<gen, max_depth, llm_call, processed, plan, frontier, results,
                   calls, popped, spawned, runs, ret, now, planVars>>

(***************************************************************************)
(* The orchestrator: one instance of either generation, and its runs.      *)
(***************************************************************************)
\* no run started, no retrieve and no direct decompose call made yet
Fresh ==
    /\ pc = "idle"
    /\ processed = None
    /\ plan = <<>>
    /\ frontier = <<>>
    /\ results = <<>>
    /\ calls = <<>>
    /\ popped = <<>>
    /\ spawned = <<>>
    /\ runs = 0
    /\ short = <<>>
    /\ shortLog = <<>>
    /\ ret = None
    /\ now = 0
    /\ nextId = 0
    /\ subtasks = <<>>
    /\ flushFailed = FALSE
    /\ threads = [t \in Threads |-> IdleThread]

Init ==
    /\ gen \in {"hrm", "engine"}
    /\ max_depth \in 0..MaxDepthBound
    /\ llm_call \in (IF gen = "hrm" THEN {"none", "hook"} ELSE {"none"})
    /\ disk \in (IF gen = "hrm" THEN {NoFile, StoredFile} ELSE {NoFile})
    /\ long = Load(disk)
    /\ parent = None
    /\ Fresh

Drain ==
    \/ \E hook \in HookOutcomes : RunIter(hook)
    \/ RunFinalize
    \/ ProcessIter
    \/ ProcessFinalize

Next ==
    \/ \E inp \in HrmInputs : Run(inp)
    \/ \E raw \in RawInputs : Process(raw)
    \/ Drain

Spec == Init /\ [][Next]_vars

\* the loop is a single thread that runs until it returns or raises
FairSpec == Spec /\ WF_vars(Drain)

(***************************************************************************)
(* Planner.decompose called directly, on any task.                         *)
(***************************************************************************)
\* depth of the parent task is drawn from 0..MaxParentDepth
MaxParentDepth == 2

\* descriptions of parent tasks: the roots Planner.plan builds, descriptions
\* of planned and spawned tasks, and the empty description
ParentDescs ==
    {CoreRoot(inp, 0).description : inp \in HrmInputs}
        \cup {EngineRoot(Preprocess(raw), 0).description : raw \in RawInputs}
        \cup {d_apply_fix, d_scaffold_project, e_create_README, d_verify_fix, <<>>}

PlanInit ==
    /\ gen \in {"hrm", "engine"}
    /\ parent \in {Task(Uuid(0), d, k) : d \in ParentDescs, k \in 0..MaxParentDepth}
    /\ max_depth = 0
    /\ llm_call = "none"
    /\ disk = NoFile
    /\ long = <<>>
    /\ Fresh

\* subtasks = planner.decompose(parent)
Decompose ==
    /\ pc = "idle"
    /\ subtasks' = IF gen = "hrm" THEN CoreDecompose(parent, nextId)
                   ELSE EngineDecompose(parent, nextId)
    /\ nextId' = nextId + Len(subtasks')
    /\ pc' = "decomposed"
    /\ UNCHANGED <<gen, max_depth, llm_call, processed, plan, frontier, results,
                   calls, popped, spawned, runs, memVars, parent>>

PlanNext == Decompose

PlanSpec == PlanInit /\ [][PlanNext]_vars

(***************************************************************************)
(* Memory.retrieve.                                                        *)
(***************************************************************************)
\* the query argument: absent / None, or a string
NoQuery == [given |-> FALSE]
Query(text) == [given |-> TRUE, text |-> text]

\* results[:limit], limit >= 0
Take(s, n) == SubSeq(s, 1, IF n < Len(s) THEN n ELSE Len(s))

\* the elements of s that satisfy the test, in order
RECURSIVE Matching(_, _, _)
Matching(pool, q, acc) ==
    IF pool = <<>> THEN acc
    ELSE LET i == Head(pool) IN
         Matching(Tail(pool), q,
                  IF Contains(q, Lower(i.content)) \/ Contains(q, i.kind)
                  THEN Append(acc, i) ELSE acc)

\* alan_core/memory.py Memory.retrieve(q, limit).  The contents written here
\* are strings, and str() of a string is the string.  i.get(...) on a
\* MemoryItem object (an entry loaded from the file) raises AttributeError.
CoreRetrieve(s, l, q, limit) ==
    LET pool == s \o LongValues(l) IN
    IF q.given /\ q.text # <<>>
    THEN IF \E p \in 1..Len(pool) : ~IsDict(pool[p])
         THEN [status |-> "raised"]
         ELSE [status |-> "ok", items |-> Take(Matching(pool, Lower(q.text), <<>>), limit)]
    ELSE [status |-> "ok", items |-> Take(pool, limit)]

\* 3600.0 seconds: the age at which the recency term reaches 0
Hour == 3600
\* s += 10.0 for a keyword hit
KeywordBonus == 10

\* score(item) of Memory.retrieve, times Hour (so that it stays an integer)
EngineScore(item, query, at) ==
    (IF Contains(Lower(query), Lower(item.content)) THEN KeywordBonus * Hour ELSE 0)
        + (IF Hour - (at - item.timestamp) > 0 THEN Hour - (at - item.timestamp) ELSE 0)
        + item.score * Hour

\* the keys of the candidates, in order
RECURSIVE EngineScores(_, _, _, _)
EngineScores(candidates, query, at, acc) ==
    IF candidates = <<>> THEN acc
    ELSE EngineScores(Tail(candidates), query, at,
                      Append(acc, EngineScore(Head(candidates), query, at)))

\* list.sort(key=..., reverse=True) is stable: the p-th element of the result
\* is the one with p - 1 elements before it, those of a larger key and those
\* of the same key that stood before it
StableSortDesc(s, keys) ==
    LET n == Len(s)
        Rank(i) == 1 + Cardinality({j \in 1..n :
                          keys[j] > keys[i] \/ (keys[j] = keys[i] /\ j < i)})
    IN [p \in 1..n |-> s[CHOOSE i \in 1..n : Rank(i) = p]]

\* alan_app/alan_core_engine.py Memory.retrieve(query, limit).  score() is
\* called once per candidate; query.lower() on None raises AttributeError.
EngineRetrieve(s, l, q, limit, at) ==
    LET candidates == s \o LongValues(l) IN
    IF candidates = <<>> THEN [status |-> "ok", items |-> <<>>]
    ELSE IF ~q.given THEN [status |-> "raised"]
    ELSE [status |-> "ok",
          items |-> Take(StableSortDesc(candidates, EngineScores(candidates, q.text, at, <<>>)),
                         limit)]

(***************************************************************************)
(* A Memory of either generation, called directly.                         *)
(***************************************************************************)
\* direct Memory.write calls
MaxWrites == 2
\* the clock advances TickSeconds at a time, MaxTicks times
MaxTicks == 3
TickSeconds == 1800
\* limit is drawn from 0..MaxLimit
MaxLimit == 2

MemContents == {in_hello, in_fix}
\* "T": lowercased it is in the kind "task_result" and in "Fix the login",
\* and not in "hello"
q_T == <<"T">>
Queries == {NoQuery, Query(<<>>), Query(kw_fix), Query(q_T)}

\* a file whose second entry lacks a field of MemoryItem
PartlyValidFile ==
    JsonFile(<< [key |-> -1, value |-> CoreItem(-1, 0, k_task_result, in_hello)],
                [key |-> -2, value |-> [id |-> -2, kind |-> k_task_result]] >>)

InitialDisks == {NoFile, StoredFile, Malformed, PartlyValidFile}

MemInit ==
    /\ gen \in {"hrm", "engine"}
    /\ disk \in (IF gen = "hrm" THEN InitialDisks ELSE {NoFile})
    /\ long = Load(disk)
    /\ max_depth = 0
    /\ llm_call = "none"
    /\ parent = None
    /\ Fresh

\* memory.write(kind, content, long_term)
Write(kind, content, long_term, ioOk) ==
    /\ MemoryWrite(gen, nextId + 1, kind, content, long_term, ioOk)
    /\ nextId' = nextId + 1
    /\ ret' = None
    /\ UNCHANGED <<orchVars, now, planVars>>

\* time passes
Tick ==
    /\ now < MaxTicks * TickSeconds
    /\ now' = now + TickSeconds
    /\ ret' = None
    /\ UNCHANGED <<orchVars, short, long, disk, shortLog, flushFailed, threads,
                   nextId, planVars>>

\* memory.retrieve(q, limit)
Retrieve(q, limit) ==
    /\ LET r == IF gen = "hrm" THEN CoreRetrieve(short, long, q, limit)
                ELSE EngineRetrieve(short, long, q, limit, now)
       IN ret' = [q |-> q, limit |-> limit, at |-> now,
                  pool |-> short \o LongValues(long),
                  status |-> r.status,
                  items |-> IF r.status = "ok" THEN r.items ELSE <<>>]
    /\ UNCHANGED <<orchVars, short, long, disk, shortLog, now, flushFailed, threads,
                   nextId, planVars>>

MemWrite ==
    /\ nextId < MaxWrites
    /\ \E content \in MemContents, long_term \in BOOLEAN, ioOk \in BOOLEAN :
           Write(k_task_result, content, long_term, ioOk)

MemNext ==
    \/ MemWrite
    \/ Tick
    \/ \E q \in Queries, limit \in 0..MaxLimit : Retrieve(q, limit)

MemSpec == MemInit /\ [][MemNext]_vars

(***************************************************************************)
(* A Memory filled past the bound of its short-term list.                  *)
(***************************************************************************)
\* short-term writes beyond the bound
MaxOverflow == 2
\* long-term writes in between
MaxLongWrites == 1

FifoWriteShort ==
    /\ Len(shortLog) < ShortBound(gen) + MaxOverflow
    /\ Write(k_task_result, in_hello, FALSE, TRUE)

\* long-term writes come in between while the list is within MaxOverflow of its bound
FifoWriteLong ==
    /\ Len(shortLog) < ShortBound(gen) + MaxOverflow
    /\ Len(shortLog) + MaxOverflow >= ShortBound(gen)
    /\ nextId - Len(shortLog) < MaxLongWrites
    /\ \E ioOk \in BOOLEAN : Write(k_task_result, in_fix, TRUE, ioOk)

FifoNext == FifoWriteShort \/ FifoWriteLong

FifoInit ==
    /\ gen \in {"hrm", "engine"}
    /\ disk = NoFile
    /\ long = <<>>
    /\ max_depth = 0
    /\ llm_call = "none"
    /\ parent = None
    /\ Fresh

FifoSpec == FifoInit /\ [][FifoNext]_vars

(***************************************************************************)
(* alan_core/memory.py: a Memory written to, and a fresh Memory constructed *)
(* on the same long_term_path.                                             *)
(***************************************************************************)
\* Memory.write calls, over all the instances
MaxPersistWrites == 3

\* contents written: a string, and the dict Worker.execute writes
PersistContent(c) ==
    IF c = "str" THEN in_hello
    ELSE TaskResultContent(Task(Uuid(0), d_analyze, 1), [echo |-> d_analyze])

PersistInit ==
    /\ gen = "hrm"
    /\ disk \in InitialDisks
    /\ long = Load(disk)
    /\ max_depth = 0
    /\ llm_call = "none"
    /\ parent = None
    /\ Fresh

PersistWrite ==
    /\ nextId < MaxPersistWrites
    /\ \E c \in {"str", "dict"}, long_term \in BOOLEAN, ioOk \in BOOLEAN :
           Write(k_task_result, PersistContent(c), long_term, ioOk)

\* Memory(long_term_path): a new instance, short-term empty, long-term loaded
\* from the file the previous instance left
Restart ==
    /\ gen = "hrm"
    /\ short' = <<>>
    /\ shortLog' = <<>>
    /\ long' = Load(disk)
    /\ flushFailed' = FALSE
    /\ ret' = None
    /\ UNCHANGED <<orchVars, disk, now, threads, nextId, planVars>>

PersistNext == PersistWrite \/ Restart

PersistSpec == PersistInit /\ [][PersistNext]_vars

(***************************************************************************)
(* alan_core/memory.py under the threads of backend/app.py: the runs of    *)
(* several requests call Memory.write and Memory.retrieve on the one       *)
(* Memory of the module-level HRM.  Nothing in Memory takes a lock, so     *)
(* another thread can run between the statements of write; one statement   *)
(* on a list (append, len, pop, list()) is atomic in CPython.              *)
(***************************************************************************)
\* Memory.write calls made while requests overlap
MaxConcWrites == 3

\* requests served one after the other fill the list up to one below its bound
FillWrite ==
    /\ gen = "hrm"
    /\ Len(shortLog) < CoreShortBound - 1
    /\ Write(k_task_result, in_hello, FALSE, TRUE)

\* thread t: item = MemoryItem(...); self.short.append(asdict(item))
WriteAppend(t) ==
    /\ gen = "hrm"
    /\ threads[t].pc = "idle"
    /\ Len(shortLog) >= CoreShortBound - 1
    /\ Len(shortLog) < CoreShortBound - 1 + MaxConcWrites
    /\ LET item == CoreItem(nextId + 1, now, k_task_result, in_hello) IN
          /\ short' = Append(short, item)
          /\ shortLog' = Append(shortLog, item)
    /\ nextId' = nextId + 1
    /\ threads' = [threads EXCEPT ![t] = [pc |-> "appended", seen |-> Len(short)]]
    /\ ret' = None
    /\ UNCHANGED <<orchVars, long, disk, now, flushFailed, planVars>>

\* thread t: if len(self.short) > 200: self.short.pop(0); return item
WriteEvict(t) ==
    /\ gen = "hrm"
    /\ threads[t].pc = "appended"
    /\ short' = IF Len(short) > CoreShortBound THEN Tail(short) ELSE short
    /\ threads' = [threads EXCEPT ![t] = IdleThread]
    /\ ret' = None
    /\ UNCHANGED <<orchVars, long, disk, shortLog, now, flushFailed, nextId, planVars>>

\* some thread: memory.retrieve(), whose pool = list(self.short) + ... reads
\* the list as it is at that moment
ConcRetrieve ==
    /\ gen = "hrm"
    /\ Len(shortLog) >= CoreShortBound - 1
    /\ Retrieve(NoQuery, 0)

ConcNext ==
    \/ FillWrite
    \/ \E t \in Threads : WriteAppend(t)
    \/ \E t \in Threads : WriteEvict(t)
    \/ ConcRetrieve

ConcInit ==
    /\ gen = "hrm"
    /\ disk = NoFile
    /\ long = Load(disk)
    /\ max_depth = 0
    /\ llm_call = "none"
    /\ parent = None
    /\ Fresh

ConcSpec == ConcInit /\ [][ConcNext]_vars

(***************************************************************************)
(* Properties of the orchestrator.                                         *)
(***************************************************************************)
IsSkipped(e) == "skipped" \in DOMAIN e

\* whether result entry e is the entry of task t
IsEntryOf(e, t) == IF IsSkipped(e) THEN e.task = t.description ELSE e.task_id = t.id

\* the descriptions of the result list, in order
ResultDescs ==
    [i \in 1..Len(results) |->
        IF IsSkipped(results[i]) THEN results[i].task ELSE results[i].description]

PlanDescs == [i \in 1..Len(plan) |-> plan[i].description]

\* C1: Worker.execute is never called on a frontier entry deeper than
\* max_depth, and every popped entry deeper than max_depth is in the result
\* list as a {task, skipped} marker and never as an execution result.
C1_DepthInvariant ==
    /\ \A i \in 1..Len(calls) : calls[i].depth <= max_depth
    /\ \A i \in 1..Len(popped) :
          popped[i].depth > max_depth =>
              /\ \E j \in 1..Len(results) : results[j] = Skipped(popped[i].task)
              /\ \A j \in 1..Len(results) :
                    ~IsSkipped(results[j]) => results[j].task_id # popped[i].task.id

\* a finished run that executed some tasks and skipped a deeper one
C1_Witness ==
    /\ pc = "done"
    /\ calls # <<>>
    /\ \E i \in 1..Len(popped) : popped[i].depth > max_depth

\* C2: in the returned result list, every child spawned while other entries
\* were queued comes strictly before every one of those queued entries.
C2_SpawnOrdering ==
    pc = "done" =>
        \A s \in 1..Len(spawned) :
            \A c \in 1..Len(spawned[s].children) :
                \A q \in 1..Len(spawned[s].queued) :
                    /\ \E j \in 1..Len(results) : IsEntryOf(results[j], spawned[s].children[c])
                    /\ \E k \in 1..Len(results) : IsEntryOf(results[k], spawned[s].queued[q])
                    /\ \A j, k \in 1..Len(results) :
                          (/\ IsEntryOf(results[j], spawned[s].children[c])
                           /\ IsEntryOf(results[k], spawned[s].queued[q])) => j < k

\* a finished run in which children were spawned ahead of queued entries
C2_Witness ==
    /\ pc = "done"
    /\ \E s \in 1..Len(spawned) :
          Len(spawned[s].children) > 0 /\ Len(spawned[s].queued) > 0

\* C3: AlanCore.process with max_depth = 2 on a 'create' input returns the
\* results in the order scaffold, create README, create src folder, create
\* core modules, write tests.
C3_ChildrenKeepOrder ==
    (gen = "engine" /\ max_depth = 2 /\ pc = "done" /\ processed.intent = i_create) =>
        ResultDescs = << e_scaffold_project_structure, e_create_README,
                         e_create_src_folder, d_create_core_modules,
                         e_write_basic_tests >>

\* C4: every run that has started draining its frontier ends with the
\* frontier empty, the "last_results" event written and the results returned.
C4_TotalCompletion == (pc = "draining") ~> (pc = "done")

\* C5: when the injected hook raises inside Worker.execute, the exception
\* does not leave the Worker: HRM.run is never left by an exception.
C5_HookFailureCaptured == (gen = "hrm" /\ llm_call = "hook") => pc # "raised"

\* C6: for {text: 'Debug why build fails', intent: 'debug'} Planner.plan
\* emits collect logs, reproduce, apply fix, and HRM.run returns collect
\* logs, reproduce, apply fix, verify fix in that order.
C6_Scenario2 ==
    (/\ gen = "hrm"
     /\ pc \in {"draining", "done"}
     /\ processed = [text |-> in_debug, intent |-> i_debug, tokens |-> Split(in_debug)]) =>
        /\ PlanDescs = <<d_collect_logs, d_reproduce, d_apply_fix>>
        /\ pc = "done" =>
              ResultDescs = <<d_collect_logs, d_reproduce, d_apply_fix, d_verify_fix>>

\* C7: for {text: "What's the status?", intent: 'query'} the plan is the
\* single task 'analyze', and the run returns exactly one execution result,
\* whose payload is an analysis summary and not an echo, and spawns nothing.
C7_Scenario3 ==
    (/\ pc = "done"
     /\ max_depth >= 1
     /\ "intent" \in DOMAIN processed
     /\ processed.text = in_status
     /\ processed.intent = i_query) =>
        /\ PlanDescs = <<d_analyze>>
        /\ Len(results) = 1
        /\ ~IsSkipped(results[1])
        /\ "analysis" \in DOMAIN results[1].result
        /\ spawned = <<>>

\* C8: Planner.decompose returns, for a parent of any depth d, a non-empty
\* sequence of tasks, each with a non-empty description and depth d + 1.
C8_DecomposeDepth ==
    pc = "decomposed" =>
        /\ Len(subtasks) > 0
        /\ \A i \in 1..Len(subtasks) :
              /\ subtasks[i].description # <<>>
              /\ subtasks[i].depth = parent.depth + 1

(***************************************************************************)
(* Properties of Memory.                                                   *)
(***************************************************************************)
\* C9: once more than B short-term writes were made (B = 200 in
\* alan_core/memory.py, 100 in alan_core_engine.py), the short-term list is
\* exactly the B most recently written items, in the order they were written.
C9_FifoEviction ==
    Len(shortLog) > ShortBound(gen) =>
        short = SubSeq(shortLog, Len(shortLog) - ShortBound(gen) + 1, Len(shortLog))

\* the memory of alan_core/memory.py two writes past its bound
C9_Witness ==
    /\ gen = "hrm"
    /\ Len(shortLog) = CoreShortBound + 2
    /\ Len(short) = CoreShortBound

ItemId(i) == IF IsDict(i) THEN i.id ELSE i.MemoryItem.id
ItemTime(i) ==
    IF ~IsDict(i) THEN i.MemoryItem.ts
    ELSE IF "ts" \in DOMAIN i THEN i.ts ELSE i.timestamp

\* recency + static score of an item at time `at`, times Hour; an item
\* without a score field has the default score 1.0
RecencyPlusStatic(i, at) ==
    (IF Hour - (at - ItemTime(i)) > 0 THEN Hour - (at - ItemTime(i)) ELSE 0)
        + (IF "score" \in DOMAIN i THEN i.score ELSE 1) * Hour

PoolPos(r, i) == CHOOSE p \in 1..Len(r.pool) : ItemId(r.pool[p]) = ItemId(i)

\* C10: Memory.retrieve with no query and limit L returns at most L items of
\* the union of short-term and long-term items, ordered by recency + static
\* score descending, ties in the order of iteration.
C10_RetrieveNoQuery ==
    (ret # None /\ ~ret.q.given) =>
        /\ ret.status = "ok"
        /\ Len(ret.items) <= ret.limit
        /\ \A i \in 1..Len(ret.items) :
              \E p \in 1..Len(ret.pool) : ItemId(ret.pool[p]) = ItemId(ret.items[i])
        /\ \A i, j \in 1..Len(ret.items) :
              i < j =>
                 \/ RecencyPlusStatic(ret.items[i], ret.at) > RecencyPlusStatic(ret.items[j], ret.at)
                 \/ /\ RecencyPlusStatic(ret.items[i], ret.at) = RecencyPlusStatic(ret.items[j], ret.at)
                    /\ PoolPos(ret, ret.items[i]) < PoolPos(ret, ret.items[j])

ItemContent(i) == IF IsDict(i) THEN i.content ELSE i.MemoryItem.content

\* whether the stringified content of item i contains q, case-insensitively
HasQuery(i, q) == Contains(Lower(q), Lower(ItemContent(i)))

\* C11: Memory.retrieve with a non-empty query Q returns every item whose
\* content contains Q (case-insensitively) strictly before every returned
\* item whose content does not contain Q and that has the same recency and
\* static score.
C11_QueryRanking ==
    (ret # None /\ ret.q.given /\ ret.status = "ok") =>
        (ret.q.text # <<>> =>
            \A i, j \in 1..Len(ret.items) :
                (/\ HasQuery(ret.items[i], ret.q.text)
                 /\ ~HasQuery(ret.items[j], ret.q.text)
                 /\ RecencyPlusStatic(ret.items[i], ret.at)
                        = RecencyPlusStatic(ret.items[j], ret.at)) => i < j)

\* the identities held by the short-term list and by the long-term map
ShortIds == {ItemId(short[i]) : i \in 1..Len(short)}
LongIds == {long[i].key : i \in 1..Len(long)}

\* C12: after every completed Memory.write, short-term or long-term, in any
\* order, every item written and still stored is in exactly one of the two
\* partitions (once, and never in both), and the short-term list is no
\* longer than its bound.
C12_StoreInvariant ==
    /\ ShortIds \cap LongIds = {}
    /\ Cardinality(ShortIds) = Len(short)
    /\ Cardinality(LongIds) = Len(long)
    /\ \A i \in 1..Len(long) : ItemId(long[i].value) = long[i].key
    /\ \A n \in 1..nextId :
          (n \in ShortIds \cup LongIds) => (n \in ShortIds) # (n \in LongIds)
    /\ Len(short) <= ShortBound(gen)

\* a full short-term list that has evicted, next to a long-term item
C12_Witness ==
    /\ Len(short) = ShortBound(gen)
    /\ Len(shortLog) > ShortBound(gen)
    /\ Len(long) > 0

ItemKind(i) == IF IsDict(i) THEN i.kind ELSE i.MemoryItem.kind

\* every entry of l was put there by Memory.write
AllWritten(l) == \A i \in 1..Len(l) : IsDict(l[i].value)

\* m holds exactly the identities of l, each with the kind and content of l
SameEntries(l, m) ==
    /\ Len(m) = Len(l)
    /\ \A i \in 1..Len(l) :
          \E j \in 1..Len(m) :
              /\ m[j].key = l[i].key
              /\ ItemId(m[j].value) = ItemId(l[i].value)
              /\ ItemKind(m[j].value) = ItemKind(l[i].value)
              /\ ItemContent(m[j].value) = ItemContent(l[i].value)

MissingOrMalformed(d) ==
    \/ ~d.exists
    \/ ~d.parses
    \/ \E i \in 1..Len(d.entries) : ~WellFormed(d.entries[i].value)

\* C14: a Memory constructed on a missing or malformed file (a file whose
\* entries are partly valid and partly malformed included) is constructed
\* without an exception and has an empty long-term map.
C14_LoadTolerant ==
    (gen = "hrm" /\ nextId = 0 /\ MissingOrMalformed(disk)) => long = <<>>

\* C15: with several runs executing concurrently against the one Memory,
\* the append-and-evict of a write and the read of a retrieve are atomic with
\* respect to one another: no write appends to, and no retrieve reads, a
\* short-term list longer than the bound.
C15_AtomicStore ==
    gen = "hrm" =>
        /\ \A t \in Threads :
              threads[t].pc = "appended" => threads[t].seen <= CoreShortBound
        /\ ret # None => Len(ret.pool) <= CoreShortBound + Len(long)

\* the identities of the tasks that entered the frontier: the planned tasks
\* and the children of every spawn
EnteredIds ==
    {plan[i].id : i \in 1..Len(plan)}
        \cup UNION {{spawned[s].children[c].id : c \in 1..Len(spawned[s].children)} :
                      s \in 1..Len(spawned)}

\* C16: the result list returned by HRM.run / AlanCore.process has exactly
\* one entry, an execution result or a skipped marker, for every task that
\* entered the frontier, planned or spawned, and the entries are in the order
\* in which the tasks were popped.
C16_OneEntryPerTask ==
    pc = "done" =>
        /\ Len(results) = Len(popped)
        /\ \A i \in 1..Len(results) : IsEntryOf(results[i], popped[i].task)
        /\ \A id \in EnteredIds :
              Cardinality({i \in 1..Len(popped) : popped[i].task.id = id}) = 1
        /\ \A i \in 1..Len(popped) : popped[i].task.id \in EnteredIds

\* a finished run with planned and spawned tasks, executed and skipped ones
C16_Witness ==
    /\ pc = "done"
    /\ spawned # <<>>
    /\ \E i \in 1..Len(results) : IsSkipped(results[i])
    /\ \E i \in 1..Len(results) : ~IsSkipped(results[i])

\* result entry e is an execution result whose payload has a truthy "fixed"
FixedFlag(e) ==
    /\ ~IsSkipped(e)
    /\ "fixed" \in DOMAIN e.result
    /\ e.result.fixed = TRUE

\* the frontier entry Rule B makes for the popped entry p
VerifyEntry(p) ==
    [task |-> Task(VerifyId(p.task.id), d_verify_fix, p.depth + 1), depth |-> p.depth + 1]

\* the entries that were in the frontier at some time: popped or still queued
EverQueued == popped \o frontier

WrittenInRun(it) == it.id > plan[Len(plan)].id.uuid

\* the short-term writes of the current run, in order
RunWrites == SelectSeq(shortLog, WrittenInRun)

Executed(e) == ~IsSkipped(e)

\* the execution results of the current run, in order
ExecutedResults == SelectSeq(results, Executed)

\* C18: the Memory writes of one run are one "task_result" event per executed
\* task, in the order of execution and present by the time the task's
\* ExecutionResult is in the results, none for a skipped task, and after all
\* of them the single "last_results" event; on return the newest short-term
\* item is that event and holds the returned result list.
C18_MemoryTrace ==
    pc \in {"draining", "done", "raised"} =>
        LET k == Len(ExecutedResults) IN
        /\ Len(RunWrites) = IF pc = "done" THEN k + 1 ELSE k
        /\ \A j \in 1..k :
              /\ RunWrites[j].kind = k_task_result
              /\ RunWrites[j].content =
                    [task |-> ExecutedResults[j].description,
                     result |-> ExecutedResults[j].result]
        /\ pc = "done" =>
              /\ RunWrites[k + 1].kind = k_last_results
              /\ RunWrites[k + 1].content = results
              /\ short # <<>>
              /\ short[Len(short)] = RunWrites[k + 1]

\* a returned run that executed two tasks or more and skipped one
C18_Witness ==
    /\ pc = "done"
    /\ Len(ExecutedResults) >= 2
    /\ Len(ExecutedResults) < Len(results)
    /\ short[Len(short)].kind = k_last_results

\* the tasks spawned in the current run, in order
RECURSIVE ChildrenOf(_)
ChildrenOf(log) ==
    IF log = <<>> THEN <<>> ELSE Head(log).children \o ChildrenOf(Tail(log))

C20_LoadedLikeWritten ==
    (gen = "hrm" /\ ret # None) =>
        \A p \in 1..Len(ret.pool) :
            ItemId(ret.pool[p]) < 0 =>
                /\ ret.status = "ok"
                /\ IsDict(ret.pool[p])
                /\ (ret.limit >= Len(ret.pool)
                        /\ (ret.q.given => HasQuery(ret.pool[p], ret.q.text))) =>
                      \E i \in 1..Len(ret.items) : ret.items[i] = ret.pool[p]

====
